---- MODULE Spec2Model ----
(***************************************************************************)
(* Model of the integer-keyed, string-valued key-value store:              *)
(*   src/src/hash_table.c   open addressing, tombstones, growth           *)
(*   src/src/persistence.c  binary save / load                            *)
(*   src/src/error.c        process-wide last-error code                  *)
(*                                                                         *)
(* size_t values are written as integers; a negative integer n stands for *)
(* the unsigned value 2^64 + n (so SIZE_MAX is -1 and an unsigned         *)
(* decrement of 0 gives -1).  The host is taken to be little-endian with  *)
(* a 4-byte int, as hash_key reads the raw bytes of the key.              *)
(***************************************************************************)
EXTENDS Integers, Sequences, FiniteSets, TLC

(* ---------------- bounds of the model ---------------- *)

\* largest capacity a growth may produce
MaxCapacity == 4

\* |size| and |tombstones| stay within this bound
MaxCount == 3

\* the initial_capacity arguments handed to ht_create (0 asks for the default)
InitCaps == {0, 1, 2}

\* how many times in a run an indeterminate return value may read as false
MaxGarbage == 1

\* allocations that fail in one run of the allocation-failure specification
MaxAllocFail == 1

\* largest capacity of the runs that set and delete one key in turn
MaxChurnCapacity == 8

\* the initial capacity of those runs
ChurnCaps == {4}

\* the probe loop is watched for at most this many slots
MaxProbes == 20

(* ---------------- program constants ---------------- *)

DEFAULT_CAPACITY == 16

GROWTH_FACTOR == 2

\* LOAD_FACTOR_THRESHOLD 0.75 as the fraction ThresholdNum / ThresholdDen
ThresholdNum == 3

ThresholdDen == 4

DELETED_KEY == -2147483647 - 1

SIZE_MAX == -1

KVS_SUCCESS == "KVS_SUCCESS"

KVS_ERROR_MEMORY == "KVS_ERROR_MEMORY"

KVS_ERROR_KEY_NOT_FOUND == "KVS_ERROR_KEY_NOT_FOUND"

KVS_ERROR_INVALID_PARAM == "KVS_ERROR_INVALID_PARAM"

KVS_ERROR_FILE_IO == "KVS_ERROR_FILE_IO"

KVS_ERROR_CORRUPTION == "KVS_ERROR_CORRUPTION"

(* ---------------- inputs ---------------- *)

\* keys the callers use; 1, 5 and 9 collide modulo 1, 2 and 4
Keys == {1, 5, 9}

Strings == {"a", "bb"}

\* a char* : the null pointer, or a buffer with its contents; freed marks a
\* buffer that has been handed to free() (the pointer is then dangling)
NULL == [null |-> TRUE, str |-> "", freed |-> FALSE]

Buf(s) == [null |-> FALSE, str |-> s, freed |-> FALSE]

\* what strlen/strcpy/fwrite can see through a pointer: the contents of a
\* live buffer, anything at all once the buffer has been freed
Contents(p) == IF p.freed THEN Strings ELSE {p.str}

(* ---------------- hash_key ---------------- *)

RECURSIVE BitXor(_, _, _)
BitXor(a, b, n) ==
    IF n = 0 THEN 0
    ELSE (((a % 2) + (b % 2)) % 2) + 2 * BitXor(a \div 2, b \div 2, n - 1)

\* the four bytes of an int, least significant first
KeyBytes(key) ==
    LET lo == key % 65536
        hi == (key \div 65536) % 65536
    IN  << lo % 256, lo \div 256, hi % 256, hi \div 256 >>

\* one round of FNV-1a on a 32-bit hash kept as two 16-bit halves:
\* hash ^= byte; hash *= 16777619  (16777619 = 2^24 + 403)
FnvStep(h, byte) ==
    LET lo1 == BitXor(h.lo, byte, 16)
        p   == lo1 * 403
    IN  [lo |-> p % 65536,
         hi |-> (h.hi * 403 + (p \div 65536) + (lo1 % 256) * 256) % 65536]

\* 2166136261 = 33052 * 65536 + 40389
hash_key(key) ==
    LET b  == KeyBytes(key)
        h0 == [hi |-> 33052, lo |-> 40389]
    IN  FnvStep(FnvStep(FnvStep(FnvStep(h0, b[1]), b[2]), b[3]), b[4])

\* hash_key of the keys that reach find_slot, computed once
Hashes == [key \in Keys |-> hash_key(key)]

\* hash_key(key) % capacity
HashIndex(key, cap) ==
    LET h == IF key \in DOMAIN Hashes THEN Hashes[key] ELSE hash_key(key)
    IN  ((h.hi % cap) * (65536 % cap) + h.lo) % cap

(* ---------------- the table ---------------- *)

\* a slot as calloc leaves it
ZeroEntry == [key |-> 0, value |-> NULL, occupied |-> FALSE]

\* ht_create without the default for initial_capacity 0
ht_create_no_default(initial_capacity) ==
    [entries |-> [i \in 0 .. initial_capacity - 1 |-> ZeroEntry],
     capacity |-> initial_capacity, size |-> 0, tombstones |-> 0]

ht_create(initial_capacity) ==
    LET cap == IF initial_capacity = 0 THEN DEFAULT_CAPACITY ELSE initial_capacity
    IN  [entries |-> [i \in 0 .. cap - 1 |-> ZeroEntry],
         capacity |-> cap, size |-> 0, tombstones |-> 0]

IsLive(entry) == entry.occupied /\ entry.key # DELETED_KEY

IsTombstone(entry) == entry.occupied /\ entry.key = DELETED_KEY

\* the probe loop without the memory of the first tombstone
RECURSIVE probe_no_reuse(_, _, _, _, _, _)
probe_no_reuse(t, key, for_insertion, index, original_index, first_tombstone) ==
    LET entry == t.entries[index] IN
    IF ~entry.occupied
    THEN index
    ELSE IF entry.key # DELETED_KEY /\ entry.key = key
    THEN index
    ELSE LET next == (index + 1) % t.capacity
         IN  IF next # original_index
             THEN probe_no_reuse(t, key, for_insertion, next, original_index,
                                 first_tombstone)
             ELSE SIZE_MAX

\* the probe loop that takes the first tombstone for an insertion at once,
\* without looking for the key further on
RECURSIVE probe_first_tombstone(_, _, _, _, _, _)
probe_first_tombstone(t, key, for_insertion, index, original_index, first_tombstone) ==
    LET entry == t.entries[index] IN
    IF ~entry.occupied
    THEN index
    ELSE IF entry.key = DELETED_KEY /\ for_insertion
    THEN index
    ELSE IF entry.key # DELETED_KEY /\ entry.key = key
    THEN index
    ELSE LET next == (index + 1) % t.capacity
         IN  IF next # original_index
             THEN probe_first_tombstone(t, key, for_insertion, next,
                                        original_index, first_tombstone)
             ELSE SIZE_MAX

RECURSIVE probe(_, _, _, _, _, _)
probe(t, key, for_insertion, index, original_index, first_tombstone) ==
    LET entry == t.entries[index] IN
    IF ~entry.occupied
    THEN IF for_insertion /\ first_tombstone # SIZE_MAX
         THEN first_tombstone
         ELSE index
    ELSE IF entry.key # DELETED_KEY /\ entry.key = key
    THEN index
    ELSE LET ft == IF entry.key = DELETED_KEY /\ for_insertion
                      /\ first_tombstone = SIZE_MAX
                   THEN index ELSE first_tombstone
             next == (index + 1) % t.capacity
         IN  IF next # original_index
             THEN probe(t, key, for_insertion, next, original_index, ft)
             ELSE IF for_insertion /\ ft # SIZE_MAX THEN ft ELSE SIZE_MAX

find_slot(t, key, for_insertion) ==
    IF t.capacity = 0 THEN SIZE_MAX
    ELSE LET index == HashIndex(key, t.capacity)
         IN  probe(t, key, for_insertion, index, index, SIZE_MAX)

\* the slots the probe loop would examine if it did not stop on coming back
\* to original_index
RECURSIVE probe_count_no_stop(_, _, _, _, _, _)
probe_count_no_stop(t, key, for_insertion, index, original_index, n) ==
    LET entry == t.entries[index] IN
    IF n >= MaxProbes
    THEN n
    ELSE IF ~entry.occupied
    THEN n + 1
    ELSE IF entry.key # DELETED_KEY /\ entry.key = key
    THEN n + 1
    ELSE probe_count_no_stop(t, key, for_insertion, (index + 1) % t.capacity,
                             original_index, n + 1)

\* the number of slots the do-while loop of find_slot examines (executions of
\* its body), n of them already examined; the count is watched up to MaxProbes
RECURSIVE probe_count(_, _, _, _, _, _)
probe_count(t, key, for_insertion, index, original_index, n) ==
    LET entry == t.entries[index] IN
    IF n >= MaxProbes
    THEN n
    ELSE IF ~entry.occupied
    THEN n + 1
    ELSE IF entry.key # DELETED_KEY /\ entry.key = key
    THEN n + 1
    ELSE LET next == (index + 1) % t.capacity
         IN  IF next # original_index
             THEN probe_count(t, key, for_insertion, next, original_index, n + 1)
             ELSE n + 1

\* the slots one call of find_slot examines
slots_examined(t, key, for_insertion) ==
    IF t.capacity = 0 THEN 0
    ELSE LET index == HashIndex(key, t.capacity)
         IN  probe_count(t, key, for_insertion, index, index, 0)

\* (double)(size + tombstones) / capacity >= LOAD_FACTOR_THRESHOLD; the sum is
\* unsigned, so a negative representative is a value near 2^64
LoadFactorHigh(t) ==
    LET sum == t.size + t.tombstones
    IN  sum < 0 \/ ThresholdDen * sum >= ThresholdNum * t.capacity

\* an outcome of a call: the table afterwards, the last-error code, the value
\* returned, and whether the process died inside the call
\* (garbage marks a result that is an indeterminate value read as false;
\* leaked counts the malloc'ed buffers the call left unfreed with no pointer
\* to them)
Outcome(t, e, r) ==
    [t |-> t, err |-> e, ret |-> r, crashed |-> FALSE, garbage |-> FALSE,
     oom |-> "", leaked |-> 0]

Crash(t, e) ==
    [t |-> t, err |-> e, ret |-> FALSE, crashed |-> TRUE, garbage |-> FALSE,
     oom |-> "", leaked |-> 0]

\* the outcomes outs of the rest of a call that has left n buffers behind
Leaking(n, outs) == {[o EXCEPT !.leaked = @ + n] : o \in outs}

\* whether overwriting the pointer p loses the last pointer to a live buffer
Orphans(p) == IF p.null \/ p.freed THEN 0 ELSE 1

\* the live buffers the slots of an array point to
RECURSIVE BuffersFrom(_, _, _)
BuffersFrom(array, cap, i) ==
    IF i = cap THEN 0
    ELSE Orphans(array[i].value) + BuffersFrom(array, cap, i + 1)

\* a call that returns false because an allocation returned NULL; what names
\* the allocation: "array" (calloc of the slot array), "copy" (malloc of the
\* value copy in ht_set), "buffer" (malloc of the read buffer in load)
OutOfMemory(t, what) ==
    [Outcome(t, KVS_ERROR_MEMORY, FALSE) EXCEPT !.oom = what]

\* the environment: how many allocations will still return NULL
VARIABLE alloc_failures

\* whether a malloc or calloc returns NULL
MallocFails == IF alloc_failures > 0 THEN {FALSE, TRUE} ELSE {FALSE}

\* free(p): freeing a live buffer marks it freed; freeing a freed buffer is
\* undefined: the allocator aborts the process or carries on
FreeOutcomes(p) == IF p.null \/ ~p.freed THEN {FALSE} ELSE {FALSE, TRUE}

Freed(p) == IF p.null THEN p ELSE [p EXCEPT !.freed = TRUE]

\* control reaches the closing brace of ht_set without a return statement:
\* the caller reads an indeterminate bool
FallOffEnd == BOOLEAN

\* ht_set from find_slot on (lines 191-217)
place(t, e, key, str) ==
    LET index == find_slot(t, key, TRUE) IN
    IF index = SIZE_MAX
    THEN {Outcome(t, KVS_ERROR_MEMORY, FALSE)}
    ELSE LET entry == t.entries[index]
             tomb  == IF entry.occupied /\ entry.key = key /\ entry.key # DELETED_KEY
                      THEN t.tombstones - 1 ELSE t.tombstones
             t2    == [t EXCEPT !.entries[index] =
                                   [key |-> key, value |-> Buf(str), occupied |-> TRUE],
                                !.tombstones = tomb,
                                !.size = t.size + 1]
         IN  UNION { IF fails
                     THEN {OutOfMemory(t, "copy")}
                     ELSE {[Outcome(t2, e, r) EXCEPT !.garbage = ~r,
                                                     !.leaked = Orphans(entry.value)]
                           : r \in FallOffEnd}
                     : fails \in MallocFails }

RECURSIVE ht_set(_, _, _, _)
RECURSIVE resize_loop(_, _, _, _, _)

\* the re-insertion loop of resize_table (lines 113-134): nt is the table
\* with the new array, old the previous array, i the loop index
resize_loop(nt, e, old, old_capacity, i) ==
    IF i = old_capacity
    THEN {Outcome(nt, e, TRUE)}
    ELSE
      LET oe == old[i]
          \* free(old_entries[i].value), then the next iteration
          release(t2, e2) ==
              UNION { IF dies THEN {Crash(t2, e2)}
                      ELSE resize_loop(t2, e2,
                                       [old EXCEPT ![i].value = Freed(oe.value)],
                                       old_capacity, i + 1)
                      : dies \in FreeOutcomes(oe.value) }
      IN
      IF IsLive(oe)
      THEN UNION { UNION {
               IF r.crashed THEN {r}
               ELSE IF ~r.ret
               THEN {[r EXCEPT !.t = [entries |-> old, capacity |-> old_capacity,
                                      size |-> r.t.size,
                                      tombstones |-> r.t.tombstones],
                               !.leaked = @ + BuffersFrom(r.t.entries,
                                                          r.t.capacity, 0)]}
               ELSE Leaking(r.leaked, release(r.t, r.err))
             : r \in ht_set(nt, e, oe.key, [oe.value EXCEPT !.str = s, !.freed = FALSE]) }
           : s \in (IF oe.value.null THEN {""} ELSE Contents(oe.value)) }
      ELSE release(nt, e)

resize_table(t, e, new_capacity) ==
    IF new_capacity <= t.capacity
    THEN {Outcome(t, e, FALSE)}
    ELSE UNION { IF fails
                 THEN {OutOfMemory(t, "array")}
                 ELSE resize_loop([entries |-> [i \in 0 .. new_capacity - 1 |-> ZeroEntry],
                                   capacity |-> new_capacity, size |-> 0,
                                   tombstones |-> 0],
                                  e, t.entries, t.capacity, 0)
                 : fails \in MallocFails }

\* ht_set without the test for the sentinel key
ht_set_any_key(t, e, key, value) ==
    IF value.null
    THEN {Outcome(t, KVS_ERROR_INVALID_PARAM, FALSE)}
    ELSE LET grown == IF LoadFactorHigh(t)
                      THEN resize_table(t, e, t.capacity * GROWTH_FACTOR)
                      ELSE {Outcome(t, e, TRUE)}
         IN  UNION { IF r.crashed \/ ~r.ret
                     THEN {r}
                     ELSE Leaking(r.leaked, place(r.t, r.err, key, value.str))
                     : r \in grown }

\* ht_set that grows by adding GROWTH_FACTOR to the capacity
ht_set_grow_by_adding(t, e, key, value) ==
    IF value.null \/ key = DELETED_KEY
    THEN {Outcome(t, KVS_ERROR_INVALID_PARAM, FALSE)}
    ELSE LET grown == IF LoadFactorHigh(t)
                      THEN resize_table(t, e, t.capacity + GROWTH_FACTOR)
                      ELSE {Outcome(t, e, TRUE)}
         IN  UNION { IF r.crashed \/ ~r.ret
                     THEN {r}
                     ELSE Leaking(r.leaked, place(r.t, r.err, key, value.str))
                     : r \in grown }

\* value is the caller's pointer: NULL or a readable string
ht_set(t, e, key, value) ==
    IF value.null \/ key = DELETED_KEY
    THEN {Outcome(t, KVS_ERROR_INVALID_PARAM, FALSE)}
    ELSE LET grown == IF LoadFactorHigh(t)
                      THEN resize_table(t, e, t.capacity * GROWTH_FACTOR)
                      ELSE {Outcome(t, e, TRUE)}
         IN  UNION { IF r.crashed \/ ~r.ret
                     THEN {r}
                     ELSE Leaking(r.leaked, place(r.t, r.err, key, value.str))
                     : r \in grown }

\* returns the stored pointer (possibly dangling) or NULL
ht_get(t, e, key) ==
    IF key = DELETED_KEY
    THEN [val |-> NULL, err |-> KVS_ERROR_INVALID_PARAM]
    ELSE LET index == find_slot(t, key, FALSE) IN
         IF index = SIZE_MAX
         THEN [val |-> NULL, err |-> KVS_ERROR_KEY_NOT_FOUND]
         ELSE LET entry == t.entries[index] IN
              IF ~entry.occupied \/ entry.key # key \/ entry.key = DELETED_KEY
              THEN [val |-> NULL, err |-> KVS_ERROR_KEY_NOT_FOUND]
              ELSE [val |-> entry.value, err |-> KVS_SUCCESS]

\* ht_delete that clears the occupied flag instead of leaving a tombstone
ht_delete_to_empty(t, e, key) ==
    IF key = DELETED_KEY
    THEN {Outcome(t, KVS_ERROR_INVALID_PARAM, FALSE)}
    ELSE LET index == find_slot(t, key, FALSE) IN
         IF index = SIZE_MAX
         THEN {Outcome(t, KVS_ERROR_KEY_NOT_FOUND, FALSE)}
         ELSE LET entry == t.entries[index] IN
              IF ~entry.occupied \/ entry.key # key \/ entry.key = DELETED_KEY
              THEN {Outcome(t, KVS_ERROR_KEY_NOT_FOUND, FALSE)}
              ELSE { IF dies THEN Crash(t, e)
                     ELSE Outcome([t EXCEPT !.entries[index] = ZeroEntry,
                                            !.size = t.size - 1],
                                  KVS_SUCCESS, TRUE)
                     : dies \in FreeOutcomes(entry.value) }

\* ht_delete that writes the tombstone key before it tests the slot
ht_delete_mark_first(t, e, key) ==
    IF key = DELETED_KEY
    THEN {Outcome(t, KVS_ERROR_INVALID_PARAM, FALSE)}
    ELSE LET index == find_slot(t, key, FALSE) IN
         IF index = SIZE_MAX
         THEN {Outcome(t, KVS_ERROR_KEY_NOT_FOUND, FALSE)}
         ELSE LET entry == t.entries[index] IN
              IF ~entry.occupied \/ entry.key # key \/ entry.key = DELETED_KEY
              THEN {Outcome([t EXCEPT !.entries[index].key = DELETED_KEY],
                            KVS_ERROR_KEY_NOT_FOUND, FALSE)}
              ELSE { IF dies THEN Crash(t, e)
                     ELSE Outcome([t EXCEPT !.entries[index].value = NULL,
                                            !.entries[index].key = DELETED_KEY,
                                            !.size = t.size - 1,
                                            !.tombstones = t.tombstones + 1],
                                  KVS_SUCCESS, TRUE)
                     : dies \in FreeOutcomes(entry.value) }

ht_delete(t, e, key) ==
    IF key = DELETED_KEY
    THEN {Outcome(t, KVS_ERROR_INVALID_PARAM, FALSE)}
    ELSE LET index == find_slot(t, key, FALSE) IN
         IF index = SIZE_MAX
         THEN {Outcome(t, KVS_ERROR_KEY_NOT_FOUND, FALSE)}
         ELSE LET entry == t.entries[index] IN
              IF ~entry.occupied \/ entry.key # key \/ entry.key = DELETED_KEY
              THEN {Outcome(t, KVS_ERROR_KEY_NOT_FOUND, FALSE)}
              ELSE { IF dies THEN Crash(t, e)
                     ELSE Outcome([t EXCEPT !.entries[index].value = NULL,
                                            !.entries[index].key = DELETED_KEY,
                                            !.size = t.size - 1,
                                            !.tombstones = t.tombstones + 1],
                                  KVS_SUCCESS, TRUE)
                     : dies \in FreeOutcomes(entry.value) }

ht_size(t) == t.size

ht_capacity(t) == t.capacity

(* ---------------- iteration ---------------- *)

ht_iterator_init(t) == 0

\* ht_iterator_next that takes every occupied slot, tombstones included
RECURSIVE ht_iterator_next_occupied(_, _)
ht_iterator_next_occupied(t, index) ==
    IF index < t.capacity
    THEN LET entry == t.entries[index] IN
         IF entry.occupied
         THEN [found |-> TRUE, index |-> index + 1,
               key |-> entry.key, value |-> entry.value]
         ELSE ht_iterator_next_occupied(t, index + 1)
    ELSE [found |-> FALSE, index |-> index, key |-> 0, value |-> NULL]

\* scans from index; found with the slot's key and value and the index to
\* resume from, or not found at the end of the array
RECURSIVE ht_iterator_next(_, _)
ht_iterator_next(t, index) ==
    IF index < t.capacity
    THEN LET entry == t.entries[index] IN
         IF entry.occupied /\ entry.key # DELETED_KEY
         THEN [found |-> TRUE, index |-> index + 1,
               key |-> entry.key, value |-> entry.value]
         ELSE ht_iterator_next(t, index + 1)
    ELSE [found |-> FALSE, index |-> index, key |-> 0, value |-> NULL]

\* ht_destroy frees every non-null value; returns whether the process can die
ht_destroy(t) ==
    UNION { FreeOutcomes(t.entries[i].value) : i \in 0 .. t.capacity - 1 }

(* ---------------- the file ---------------- *)

KVS_MAGIC_NUMBER == 1263948545

KVS_FILE_VERSION == 1

\* value_len > 100000 is rejected by kvs_load_from_file
MaxValueLen == 100000

\* size_t to uint32_t: 2^64 + n truncates to 2^32 + n, which the same
\* integer n stands for; exact while |n| < 2^31
ToU32(n) == n

\* a file is the parse of its bytes: the 16-byte header (hdr is FALSE when
\* the file is shorter), then records; fields counts the fields of a record
\* that are present (key, value_len, value bytes), data are the value bytes
\* that are there
NoFile == [exists |-> FALSE, hdr |-> FALSE, magic |-> 0, version |-> 0,
           entry_count |-> 0, records |-> << >>]

Record(key, value_len, data) ==
    [key |-> key, value_len |-> value_len, data |-> data, fields |-> 3]

File(magic, version, entry_count, records) ==
    [exists |-> TRUE, hdr |-> TRUE, magic |-> magic, version |-> version,
     entry_count |-> entry_count, records |-> records]

\* the records the iteration loop of kvs_save_to_file writes
RECURSIVE save_records(_, _)
save_records(t, index) ==
    LET n == ht_iterator_next(t, index) IN
    IF ~n.found THEN { << >> }
    ELSE { << Record(n.key, Len(s), s) >> \o rest :
             s \in Contents(n.value), rest \in save_records(t, n.index) }

\* the files kvs_save_to_file can leave (no write fails)
kvs_save_to_file(t) ==
    { File(KVS_MAGIC_NUMBER, KVS_FILE_VERSION, ToU32(ht_size(t)), recs) :
        recs \in save_records(t, ht_iterator_init(t)) }

\* an outcome of load also counts the records handed to ht_set
LoadOutcome(o, n) ==
    [t |-> o.t, err |-> o.err, ret |-> o.ret, crashed |-> o.crashed,
     garbage |-> o.garbage, oom |-> o.oom, leaked |-> o.leaked, nset |-> n]

\* the record loop of kvs_load_from_file (lines 125-174), i records done
RECURSIVE load_loop(_, _, _, _)
load_loop(t, e, f, i) ==
    IF ~(f.entry_count < 0 \/ i < f.entry_count)
    THEN {LoadOutcome(Outcome(t, KVS_SUCCESS, TRUE), i)}
    ELSE IF i >= Len(f.records)
    THEN {LoadOutcome(Outcome(t, KVS_ERROR_FILE_IO, FALSE), i)}
    ELSE
      LET rec == f.records[i + 1] IN
      IF rec.fields < 2
      THEN {LoadOutcome(Outcome(t, KVS_ERROR_FILE_IO, FALSE), i)}
      ELSE IF rec.value_len > MaxValueLen
      THEN {LoadOutcome(Outcome(t, KVS_ERROR_CORRUPTION, FALSE), i)}
      ELSE UNION {
             IF fails
             THEN {LoadOutcome(OutOfMemory(t, "buffer"), i)}
             ELSE IF rec.fields < 3 \/ Len(rec.data) # rec.value_len
             THEN {LoadOutcome(Outcome(t, KVS_ERROR_FILE_IO, FALSE), i)}
             ELSE UNION { IF r.crashed \/ ~r.ret
                          THEN {LoadOutcome(r, i + 1)}
                          ELSE Leaking(r.leaked, load_loop(r.t, r.err, f, i + 1))
                          : r \in ht_set(t, e, rec.key, Buf(rec.data)) }
             : fails \in MallocFails }

\* kvs_load_from_file without the version test
kvs_load_any_version(t, e, f) ==
    IF ~f.exists \/ ~f.hdr
    THEN {LoadOutcome(Outcome(t, KVS_ERROR_FILE_IO, FALSE), 0)}
    ELSE IF f.magic # KVS_MAGIC_NUMBER
    THEN {LoadOutcome(Outcome(t, KVS_ERROR_CORRUPTION, FALSE), 0)}
    ELSE load_loop(t, e, f, 0)

kvs_load_from_file(t, e, f) ==
    IF ~f.exists \/ ~f.hdr
    THEN {LoadOutcome(Outcome(t, KVS_ERROR_FILE_IO, FALSE), 0)}
    ELSE IF f.magic # KVS_MAGIC_NUMBER
    THEN {LoadOutcome(Outcome(t, KVS_ERROR_CORRUPTION, FALSE), 0)}
    ELSE IF f.version # KVS_FILE_VERSION
    THEN {LoadOutcome(Outcome(t, KVS_ERROR_CORRUPTION, FALSE), 0)}
    ELSE load_loop(t, e, f, 0)

(* ---------------- files found on disk that save did not write ---------------- *)

CraftedFiles ==
    [bad_magic   |-> File(KVS_MAGIC_NUMBER + 1, KVS_FILE_VERSION, 1,
                          << Record(9, 1, "a") >>),
     bad_version |-> File(KVS_MAGIC_NUMBER, KVS_FILE_VERSION + 1, 1,
                          << Record(9, 1, "a") >>),
     long_first  |-> File(KVS_MAGIC_NUMBER, KVS_FILE_VERSION, 2,
                          << Record(5, 200000, ""), Record(9, 1, "a") >>),
     long_second |-> File(KVS_MAGIC_NUMBER, KVS_FILE_VERSION, 3,
                          << Record(1, 2, "bb"), Record(5, 200000, ""),
                             Record(9, 1, "a") >>),
     \* the file ends inside the header
     cut_header  |-> [File(KVS_MAGIC_NUMBER, KVS_FILE_VERSION, 0, << >>)
                        EXCEPT !.hdr = FALSE],
     \* the file ends after the first of two records
     cut_records |-> File(KVS_MAGIC_NUMBER, KVS_FILE_VERSION, 2,
                          << Record(1, 2, "bb") >>),
     \* the file ends after the key of the second record
     cut_length  |-> File(KVS_MAGIC_NUMBER, KVS_FILE_VERSION, 2,
                          << Record(1, 1, "a"),
                             [Record(5, 0, "") EXCEPT !.fields = 1] >>),
     \* the file ends inside the value bytes of its record
     cut_value   |-> File(KVS_MAGIC_NUMBER, KVS_FILE_VERSION, 1,
                          << Record(5, 2, "b") >>),
     \* the second record carries the sentinel key
     bad_key     |-> File(KVS_MAGIC_NUMBER, KVS_FILE_VERSION, 2,
                          << Record(1, 1, "a"), Record(DELETED_KEY, 1, "a") >>)]

FileNames == {"saved"} \cup DOMAIN CraftedFiles

(* ---------------- state ---------------- *)

VARIABLES
    entries,        \* table->entries
    capacity,       \* table->capacity
    size,           \* table->size
    tombstones,     \* table->tombstones
    global_error,   \* error.c: global_error
    file,           \* the file kvs_save_to_file wrote, NoFile before
    crashed,        \* the process was aborted by the allocator
    saved,          \* history: what ht_size and ht_get answered when file was written
    garbage,        \* history: indeterminate return values read as false so far
    last            \* history: the latest call, its arguments and its result

vars == << entries, capacity, size, tombstones, global_error, file, crashed,
           saved, garbage, last, alloc_failures >>

table == [entries |-> entries, capacity |-> capacity, size |-> size,
          tombstones |-> tombstones]

Abs(n) == IF n < 0 THEN -n ELSE n

Within(t, max_capacity) ==
    /\ t.capacity <= max_capacity \/ t.capacity = capacity
    /\ Abs(t.size) <= MaxCount
    /\ Abs(t.tombstones) <= MaxCount

InBounds(t) == Within(t, MaxCapacity)

\* a call: op, key and value pointer (for create the key field holds
\* initial_capacity), the result, for load the file read and the number of
\* records handed to ht_set, the allocation that failed in the call, and the
\* buffers the call left unfreed with no pointer to them
Call(op, key, value, ret, src, nset) ==
    [op |-> op, key |-> key, value |-> value, ret |-> ret, src |-> src,
     nset |-> nset, oom |-> "", leaked |-> 0]

\* what ht_get hands back for key
Seen(t, key) == ht_get(t, KVS_SUCCESS, key).val

\* what a caller sees of the table through ht_size and ht_get
Snapshot(t) == [size |-> ht_size(t), get |-> [k \in Keys |-> Seen(t, k)]]

\* an outcome the bounds admit
AdmitWithin(o, max_capacity) ==
    /\ Within(o.t, max_capacity)
    /\ o.garbage => garbage < MaxGarbage
    /\ garbage' = IF o.garbage THEN garbage + 1 ELSE garbage
    /\ alloc_failures' = IF o.oom # "" THEN alloc_failures - 1 ELSE alloc_failures

Admit(o) == AdmitWithin(o, MaxCapacity)

SetTable(t) ==
    /\ entries' = t.entries
    /\ capacity' = t.capacity
    /\ size' = t.size
    /\ tombstones' = t.tombstones

\* the state after ht_create, with n allocation failures to come
StartWith(caps, n) ==
    /\ \E initial_capacity \in caps :
         LET t == ht_create(initial_capacity) IN
         /\ entries = t.entries
         /\ capacity = t.capacity
         /\ size = t.size
         /\ tombstones = t.tombstones
         /\ last = Call("create", initial_capacity, NULL, TRUE, "", 0)
    /\ alloc_failures = n
    /\ global_error = KVS_SUCCESS
    /\ file = NoFile
    /\ crashed = FALSE
    /\ saved = Snapshot(ht_create(0))
    /\ garbage = 0

Start(n) == StartWith(InitCaps, n)

Init == Start(0)

(* ---------------- the calls ---------------- *)

SetWithin(key, value, max_capacity) ==
    /\ ~crashed
    /\ \E o \in ht_set(table, global_error, key, value) :
         /\ AdmitWithin(o, max_capacity)
         /\ SetTable(o.t)
         /\ global_error' = o.err
         /\ crashed' = o.crashed
         /\ last' = [Call("set", key, value, o.ret, "", 0)
                       EXCEPT !.oom = o.oom, !.leaked = o.leaked]
    /\ UNCHANGED << file, saved >>

Set(key, value) == SetWithin(key, value, MaxCapacity)

Get(key) ==
    /\ ~crashed
    /\ LET r == ht_get(table, global_error, key) IN
         /\ global_error' = r.err
         /\ last' = Call("get", key, NULL, ~r.val.null, "", 0)
    /\ UNCHANGED << entries, capacity, size, tombstones, file, crashed, saved,
                    garbage, alloc_failures >>

Delete(key) ==
    /\ ~crashed
    /\ \E o \in ht_delete(table, global_error, key) :
         /\ Admit(o)
         /\ SetTable(o.t)
         /\ global_error' = o.err
         /\ crashed' = o.crashed
         /\ last' = Call("delete", key, NULL, o.ret, "", 0)
    /\ UNCHANGED << file, saved >>

Save ==
    /\ ~crashed
    /\ \E f \in kvs_save_to_file(table) : file' = f
    /\ global_error' = KVS_SUCCESS
    /\ saved' = Snapshot(table)
    /\ last' = Call("save", 0, NULL, TRUE, "saved", 0)
    /\ UNCHANGED << entries, capacity, size, tombstones, crashed, garbage,
                    alloc_failures >>

\* the file a name opens
FileOf(src) == IF src = "saved" THEN file ELSE CraftedFiles[src]

Load(src) ==
    /\ ~crashed
    /\ \E o \in kvs_load_from_file(table, global_error, FileOf(src)) :
         /\ Admit(o)
         /\ SetTable(o.t)
         /\ global_error' = o.err
         /\ crashed' = o.crashed
         /\ last' = [Call("load", 0, NULL, o.ret, src, o.nset)
                       EXCEPT !.oom = o.oom, !.leaked = o.leaked]
    /\ UNCHANGED << file, saved >>

\* kvs_destroy followed by kvs_create
Recreate(initial_capacity) ==
    /\ ~crashed
    /\ \E dies \in ht_destroy(table) :
         /\ crashed' = dies
         /\ SetTable(IF dies THEN table ELSE ht_create(initial_capacity))
         /\ global_error' = IF dies THEN global_error ELSE KVS_SUCCESS
    /\ last' = Call("create", initial_capacity, NULL, TRUE, "", 0)
    /\ UNCHANGED << file, saved, garbage, alloc_failures >>

\* the arguments of the table calls
KeyArgs == Keys \cup {DELETED_KEY}

ValueArgs == {NULL} \cup {Buf(s) : s \in Strings}

\* the keys and the initial capacity the save / load runs use
FileKeys == {1, 5}

Next ==
    \/ \E key \in KeyArgs, value \in ValueArgs : Set(key, value)
    \/ \E key \in KeyArgs : Get(key)
    \/ \E key \in KeyArgs : Delete(key)

\* the table calls alone
Spec == Init /\ [][Next]_vars

InitFile == Init /\ capacity = DEFAULT_CAPACITY

NextFile ==
    \/ \E key \in FileKeys, s \in Strings : Set(key, Buf(s))
    \/ \E key \in FileKeys : Delete(key)
    \/ Save
    \/ \E src \in FileNames : Load(src)
    \/ Recreate(0)

\* a store created with the default capacity, saved, destroyed, created anew
\* and loaded
SpecFile == InitFile /\ [][NextFile]_vars

InitAlloc == Start(MaxAllocFail)

NextAlloc ==
    \/ \E key \in Keys, s \in Strings : Set(key, Buf(s))
    \/ \E key \in Keys : Delete(key)

\* the table calls with allocations that can fail
SpecAlloc == InitAlloc /\ [][NextAlloc]_vars

InitChurn == StartWith(ChurnCaps, 0)

\* set(k, v) and delete(k) in turn, always on the key of the first set
NextChurn ==
    \/ /\ last.op # "set"
       /\ \E key \in Keys, s \in Strings :
            /\ last.op = "create" \/ key = last.key
            /\ SetWithin(key, Buf(s), MaxChurnCapacity)
    \/ /\ last.op = "set"
       /\ Delete(last.key)

\* a table of capacity 4 or more on which one key is set and deleted in turn
SpecChurn == InitChurn /\ [][NextChurn]_vars

(* ---------------- properties ---------------- *)

ValidSet(c) == c.op = "set" /\ c.key # DELETED_KEY /\ ~c.value.null

LiveSlots(t) == {i \in 0 .. t.capacity - 1 : IsLive(t.entries[i])}

TombstoneSlots(t) == {i \in 0 .. t.capacity - 1 : IsTombstone(t.entries[i])}

Retrievable(t) == {k \in Keys : ~Seen(t, k).null}

OthersKept(k) == \A k2 \in Keys \ {k} : Seen(table', k2) = Seen(table, k2)

TableUnchanged == UNCHANGED << entries, capacity, size, tombstones >>

\* C1: get agrees with an abstract key->value map driven by the same calls:
\* every set(k, v) with a non-sentinel key and a present value makes get(k)
\* return v and leaves what get returns for every other key, and every
\* delete(k) makes get(k) report not-found and leaves the other keys.
C1_Step ==
    /\ (ValidSet(last') /\ ~crashed') =>
          /\ Seen(table', last'.key) = last'.value
          /\ OthersKept(last'.key)
    /\ (last'.op = "delete" /\ last'.key # DELETED_KEY /\ ~crashed') =>
          /\ Seen(table', last'.key).null
          /\ OthersKept(last'.key)

C1_GetAgreesWithMap == [][C1_Step]_vars

\* C2: a set of a key that is already present, reporting success, makes get
\* return the new value and changes neither size (live_count) nor tombstones
\* (tombstone_count).
C2_Step ==
    (ValidSet(last') /\ ~Seen(table, last'.key).null /\ last'.ret /\ garbage' = 0) =>
        /\ Seen(table', last'.key) = last'.value
        /\ size' = size
        /\ tombstones' = tombstones

C2_OverwriteKeepsCounts == [][C2_Step]_vars

\* C3: size equals the number of Occupied non-tombstone slots, which equals
\* the number of keys that are in the table (set or loaded and not deleted
\* since).
C3_SizeIsLiveCount ==
    (~crashed /\ garbage = 0) =>
        /\ size = Cardinality(LiveSlots(table))
        /\ size = Cardinality(Retrievable(table))

\* C4: set with a non-sentinel key and a present value returns true, for a
\* new key and for a key already present.
C4_SetReturnsTrue ==
    (ValidSet(last) /\ ~crashed /\ global_error # KVS_ERROR_MEMORY) => last.ret

\* C5: delete of a key that is in the table reports success, after it get
\* reports not-found, a second delete reports KeyNotFound, and every other
\* key is still retrievable with its value.
C5_Step ==
    (last'.op = "delete" /\ last'.key # DELETED_KEY /\ ~Seen(table, last'.key).null) =>
        /\ ~crashed'
        /\ last'.ret
        /\ Seen(table', last'.key).null
        /\ ht_delete(table', global_error', last'.key)
             = {Outcome(table', KVS_ERROR_KEY_NOT_FOUND, FALSE)}
        /\ OthersKept(last'.key)

C5_DeleteThenGet == [][C5_Step]_vars

\* C6: a set of a new key that has to grow the table doubles the capacity,
\* stores the key, keeps every pair stored before, and leaves size equal to
\* the number of keys stored.
C6_Step ==
    (ValidSet(last') /\ Seen(table, last'.key).null /\ LoadFactorHigh(table)
     /\ ~crashed') =>
        /\ capacity' = capacity * GROWTH_FACTOR
        /\ Seen(table', last'.key) = last'.value
        /\ OthersKept(last'.key)
        /\ size' = Cardinality(Retrievable(table'))

C6_GrowthKeepsContents == [][C6_Step]_vars

\* C7: loading the saved file into a freshly created default-capacity table
\* succeeds and gives a table with the size and the get results of the table
\* that was saved.
C7_Step ==
    (last'.op = "load" /\ last'.src = "saved" /\ file.exists
     /\ table = ht_create(0) /\ garbage' = 0) =>
        /\ last'.ret
        /\ Snapshot(table') = saved

C7_RoundTrip == [][C7_Step]_vars

\* C8: set with the sentinel key or with a null value, and get or delete
\* with the sentinel key, return failure, set KVS_ERROR_INVALID_PARAM and
\* leave entries, size, tombstones and capacity as they were.
C8_Step ==
    ((last'.op \in {"set", "get", "delete"} /\ last'.key = DELETED_KEY)
     \/ (last'.op = "set" /\ last'.value.null)) =>
        /\ ~last'.ret
        /\ global_error' = KVS_ERROR_INVALID_PARAM
        /\ ~crashed'
        /\ TableUnchanged

C8_InvalidParamNoOp == [][C8_Step]_vars

\* set with the sentinel key was called on a table whose load factor asks
\* for growth
C8_Witness ==
    /\ last.op = "set" /\ last.key = DELETED_KEY /\ ~last.ret
    /\ global_error = KVS_ERROR_INVALID_PARAM
    /\ LoadFactorHigh(table)
    /\ Cardinality(LiveSlots(table)) > 0

\* index of the first record whose value_len is over the limit, 0 if none
RECURSIVE FirstLong(_, _)
FirstLong(recs, i) ==
    IF i > Len(recs) THEN 0
    ELSE IF recs[i].fields >= 2 /\ recs[i].value_len > MaxValueLen THEN i
    ELSE FirstLong(recs, i + 1)

\* C9: loading a file with a valid header and a record whose value_len is
\* over 100000 fails with KVS_ERROR_CORRUPTION, and no record at or after
\* that record is inserted.
C9_Step ==
    LET f   == FileOf(last'.src)
        bad == FirstLong(f.records, 1)
    IN  (last'.op = "load" /\ f.exists /\ f.hdr /\ f.magic = KVS_MAGIC_NUMBER
         /\ f.version = KVS_FILE_VERSION /\ bad > 0 /\ ~crashed') =>
            /\ ~last'.ret
            /\ global_error' = KVS_ERROR_CORRUPTION
            /\ last'.nset < bad
            /\ \A i \in bad .. Len(f.records) :
                 (\A j \in 1 .. bad - 1 : f.records[j].key # f.records[i].key) =>
                     Seen(table', f.records[i].key) = Seen(table, f.records[i].key)

C9_LongValueIsCorruption == [][C9_Step]_vars

\* C10: loading a file whose magic or version is not the expected one fails
\* with KVS_ERROR_CORRUPTION, hands no record to ht_set and leaves the table
\* as it was.
C10_Step ==
    LET f == FileOf(last'.src)
    IN  (last'.op = "load" /\ f.exists /\ f.hdr
         /\ (f.magic # KVS_MAGIC_NUMBER \/ f.version # KVS_FILE_VERSION)) =>
            /\ ~last'.ret
            /\ global_error' = KVS_ERROR_CORRUPTION
            /\ last'.nset = 0
            /\ ~crashed'
            /\ TableUnchanged

C10_BadHeaderIsCorruption == [][C10_Step]_vars

\* a file with a wrong magic was loaded into a table that holds keys
C10_Witness ==
    /\ last.op = "load" /\ last.src = "bad_magic" /\ ~last.ret
    /\ global_error = KVS_ERROR_CORRUPTION
    /\ Cardinality(LiveSlots(table)) > 0

\* the file ends before the header or one of the entry_count records is
\* complete (and no value_len before that point is over the limit)
Truncated(f) ==
    /\ f.exists
    /\ \/ ~f.hdr
       \/ /\ f.magic = KVS_MAGIC_NUMBER
          /\ f.version = KVS_FILE_VERSION
          /\ FirstLong(f.records, 1) = 0
          /\ \/ f.entry_count < 0
             \/ f.entry_count > Len(f.records)
             \/ \E i \in 1 .. Len(f.records) :
                  \/ f.records[i].fields < 3
                  \/ Len(f.records[i].data) # f.records[i].value_len

\* C11: loading a truncated file (the header incomplete, or fewer complete
\* records than entry_count) returns false with KVS_ERROR_FILE_IO.
C11_Step ==
    (last'.op = "load" /\ Truncated(FileOf(last'.src)) /\ ~crashed'
     /\ last'.oom = "") =>
        /\ ~last'.ret
        /\ global_error' = KVS_ERROR_FILE_IO

C11_TruncatedIsFileIO == [][C11_Step]_vars

\* the records a load reads to the end: the first entry_count ones
Declared(f) == {i \in 1 .. Len(f.records) : i <= f.entry_count}

\* the keys of those records, and the value the last record of a key carries
FileKeySet(f) == {f.records[i].key : i \in Declared(f)}

FileValue(f, k) ==
    LET at == {i \in Declared(f) : f.records[i].key = k}
        i  == CHOOSE j \in at : \A j2 \in at : j2 <= j
    IN  Buf(f.records[i].data)

\* C12: after a successful load into a non-empty table every key of the file
\* has the file's value, every other key keeps what it had, and size is the
\* number of keys in the union.
C12_Step ==
    LET f == FileOf(last'.src)
    IN  (last'.op = "load" /\ last'.ret /\ Retrievable(table) # {}
         /\ garbage' = 0) =>
            /\ \A k \in FileKeySet(f) : Seen(table', k) = FileValue(f, k)
            /\ \A k \in Keys \ FileKeySet(f) : Seen(table', k) = Seen(table, k)
            /\ size' = Cardinality(Retrievable(table) \cup FileKeySet(f))

C12_LoadMerges == [][C12_Step]_vars

\* the set in last' had to grow the table and the growth failed on an
\* allocation: the slot array, or a value copy of a re-insertion (the old
\* capacity is back)
GrowthFailed ==
    /\ ValidSet(last')
    /\ LoadFactorHigh(table)
    /\ last'.oom \in {"array", "copy"}
    /\ capacity' = capacity

\* C13: when growth fails on an allocation the set returns false and the
\* table is as before the call: capacity, slots, size and tombstones, and get
\* returns for every key what it returned before.
C13_Step ==
    (GrowthFailed /\ ~crashed') =>
        /\ ~last'.ret
        /\ TableUnchanged
        /\ \A k \in Keys : Seen(table', k) = Seen(table, k)

C13_ResizeAllOrNothing == [][C13_Step]_vars

\* C14: when the allocation of the value copy of the key being set fails,
\* the set returns false with KVS_ERROR_MEMORY and capacity, slots, size and
\* tombstones are as before the call.
C14_Step ==
    (ValidSet(last') /\ last'.oom = "copy" /\ ~GrowthFailed /\ ~crashed') =>
        /\ ~last'.ret
        /\ global_error' = KVS_ERROR_MEMORY
        /\ TableUnchanged

C14_CopyFailureNoOp == [][C14_Step]_vars

\* the j-th slot (from 0) on the probe path of key
PathIndex(t, key, j) == (HashIndex(key, t.capacity) + j) % t.capacity

\* the positions on the probe path of key that hold a tombstone and have no
\* empty slot at or before them
TombstonesBeforeEmpty(t, key) ==
    {j \in 0 .. t.capacity - 1 :
        /\ IsTombstone(t.entries[PathIndex(t, key, j)])
        /\ \A j2 \in 0 .. j : t.entries[PathIndex(t, key, j2)].occupied}

OccupiedSlots(t) == {i \in 0 .. t.capacity - 1 : t.entries[i].occupied}

\* C15: a set of an absent key whose probe path meets a tombstone before any
\* empty slot (and that needs no growth) stores the key in the first
\* tombstone of the path, every other slot stays as it was, and the number
\* of non-empty slots does not grow.
C15_Step ==
    LET key   == last'.key
        reach == TombstonesBeforeEmpty(table, key)
        first == CHOOSE j \in reach : \A j2 \in reach : j <= j2
        slot  == PathIndex(table, key, first)
    IN  (ValidSet(last') /\ Seen(table, key).null /\ ~LoadFactorHigh(table)
         /\ reach # {} /\ ~crashed') =>
            /\ capacity' = capacity
            /\ entries'[slot] = [key |-> key, value |-> last'.value, occupied |-> TRUE]
            /\ \A i \in 0 .. capacity - 1 : i # slot => entries'[i] = entries[i]
            /\ Cardinality(OccupiedSlots(table')) = Cardinality(OccupiedSlots(table))

C15_TombstoneReuse == [][C15_Step]_vars

\* a set returned true in a table where every tombstone left by a delete has
\* been taken by a later set of a new key
C15_Witness ==
    /\ last.op = "set" /\ last.ret /\ garbage = 0
    /\ tombstones = 1
    /\ TombstoneSlots(table) = {}
    /\ size = Cardinality(LiveSlots(table))
    /\ size >= 2

\* C16: no two occupied non-tombstone slots hold the same key.
C16_NoDuplicateKeys ==
    \A i, j \in LiveSlots(table) :
        entries[i].key = entries[j].key => i = j

\* a set has just returned true for a key that sits beyond a tombstone on
\* its probe path
C16_Witness ==
    /\ ValidSet(last) /\ last.ret
    /\ \E j \in 1 .. capacity - 1 :
         /\ entries[PathIndex(table, last.key, j)].key = last.key
         /\ IsLive(entries[PathIndex(table, last.key, j)])
         /\ \E j2 \in 0 .. j - 1 : IsTombstone(entries[PathIndex(table, last.key, j2)])

\* C17: right after a set that returns true and stores a key that was not
\* in the table, (size + tombstones) / capacity is below 0.75.
C17_Step ==
    (ValidSet(last') /\ last'.ret /\ Seen(table, last'.key).null /\ ~crashed') =>
        /\ size' + tombstones' >= 0
        /\ ThresholdDen * (size' + tombstones') < ThresholdNum * capacity'

C17_LoadFactorBelowThreshold == [][C17_Step]_vars

\* C18: create(0) gives capacity 16 and create(n), n >= 1, capacity n; the
\* new table has every slot empty, size 0 and tombstones 0, and get of any
\* key reports not-found; capacity is above 0 in every state.
C18_CreateGivesEmptyTable ==
    /\ capacity > 0
    /\ (last.op = "create" /\ ~crashed) =>
          /\ capacity = IF last.key = 0 THEN 16 ELSE last.key
          /\ DOMAIN entries = 0 .. capacity - 1
          /\ \A i \in DOMAIN entries : ~entries[i].occupied /\ entries[i].value.null
          /\ size = 0
          /\ tombstones = 0
          /\ \A k \in Keys :
                ht_get(table, global_error, k)
                  = [val |-> NULL, err |-> KVS_ERROR_KEY_NOT_FOUND]

\* a table was created with initial_capacity 0
C18_Witness ==
    last.op = "create" /\ last.key = 0 /\ capacity = 16 /\ size = 0

\* C19: tombstones equals the number of tombstone slots, and size and
\* tombstones are between 0 and capacity (a negative value stands for one
\* that wrapped below zero).
C19_TombstoneCount ==
    (~crashed /\ garbage = 0) =>
        /\ tombstones = Cardinality(TombstoneSlots(table))
        /\ 0 <= size /\ size <= capacity
        /\ 0 <= tombstones /\ tombstones <= capacity

\* the slots a step turns into a live slot of the key set
Placed == {i \in 0 .. capacity - 1 :
             /\ ~IsLive(entries[i])
             /\ IsLive(entries'[i]) /\ entries'[i].key = last'.key}

\* C20: a set that returns true and places a new key in a tombstone slot
\* takes one from tombstones and adds one to size; one that places it in an
\* empty slot adds one to size and leaves tombstones (no growth in the step).
C20_Step ==
    (ValidSet(last') /\ last'.ret /\ Seen(table, last'.key).null
     /\ capacity' = capacity /\ ~crashed') =>
        \A i \in Placed :
            /\ size' = size + 1
            /\ tombstones' = IF IsTombstone(entries[i])
                              THEN tombstones - 1 ELSE tombstones

C20_PlacementCounts == [][C20_Step]_vars

\* C21: while one key is set and deleted in turn on a table of initial
\* capacity 4 or more, the capacity never changes.
C21_ChurnKeepsCapacity == [][capacity' = capacity]_vars

\* (size + tombstones + 1) / capacity >= 0.75
ProjectedLoadHigh(t) ==
    ThresholdDen * (t.size + t.tombstones + 1) >= ThresholdNum * t.capacity

\* C22: a set that returns true and places a new key doubles the capacity
\* exactly when the projected load factor (size + tombstones + 1) / capacity
\* is 0.75 or more, and leaves the capacity otherwise.
C22_Step ==
    (ValidSet(last') /\ last'.ret /\ Seen(table, last'.key).null
     /\ size >= 0 /\ tombstones >= 0 /\ ~crashed') =>
        capacity' = IF ProjectedLoadHigh(table)
                    THEN capacity * GROWTH_FACTOR ELSE capacity

C22_GrowthTrigger == [][C22_Step]_vars

\* C23: when no allocation fails, the find_slot that set calls for the
\* insertion never returns SIZE_MAX, so a set with valid arguments fails only
\* where an indeterminate return value is read as false.
C23_Step ==
    (ValidSet(last') /\ last'.oom = "" /\ ~crashed') =>
        /\ ~LoadFactorHigh(table) => find_slot(table, last'.key, TRUE) # SIZE_MAX
        /\ garbage' = garbage => last'.ret

C23_NoSlotExhaustion == [][C23_Step]_vars

\* the slots that hold key as a live key
SlotsOf(t, key) == {i \in LiveSlots(t) : t.entries[i].key = key}

\* C24: a delete that returns true turns the one slot of its key into a
\* tombstone (occupied, key DELETED_KEY, value released), takes one from
\* size, adds one to tombstones, and changes no other slot and not capacity.
C24_Step ==
    (last'.op = "delete" /\ last'.ret /\ ~crashed') =>
        /\ Cardinality(SlotsOf(table, last'.key)) = 1
        /\ \A i \in 0 .. capacity - 1 :
             entries'[i] = IF i \in SlotsOf(table, last'.key)
                           THEN [key |-> DELETED_KEY, value |-> NULL, occupied |-> TRUE]
                           ELSE entries[i]
        /\ size' = size - 1
        /\ tombstones' = tombstones + 1
        /\ capacity' = capacity

C24_DeleteLeavesTombstone == [][C24_Step]_vars

\* a delete returned true in a table that holds another key
C24_Witness ==
    /\ last.op = "delete" /\ last.ret /\ ~crashed
    /\ TombstoneSlots(table) # {}
    /\ LiveSlots(table) # {}

\* the positions at which the probe path of the key in slot i reaches slot i
\* with every slot before it occupied (by another key or a tombstone)
ReachedAt(t, i) ==
    {j \in 0 .. t.capacity - 1 :
        /\ PathIndex(t, t.entries[i].key, j) = i
        /\ \A j2 \in 0 .. j - 1 :
             t.entries[PathIndex(t, t.entries[i].key, j2)].occupied}

\* C25: for every live key, no slot on its probe path before its own slot
\* is empty, so a lookup finds the key in that slot.
C25_ProbePath ==
    \A i \in LiveSlots(table) :
        /\ ReachedAt(table, i) # {}
        /\ find_slot(table, entries[i].key, FALSE) = i

\* after a delete a live key sits behind the tombstone on its probe path
C25_Witness ==
    /\ last.op = "delete" /\ last.ret /\ ~crashed
    /\ \E i \in LiveSlots(table) :
         \E j \in ReachedAt(table, i) :
           \E j2 \in 0 .. j - 1 :
             /\ IsTombstone(entries[PathIndex(table, entries[i].key, j2)])
             /\ PathIndex(table, entries[i].key, j2) = HashIndex(last.key, capacity)

\* the place of live slot i among the live slots, counted from 1 in
\* ascending slot order
Rank(t, i) == Cardinality({j \in LiveSlots(t) : j <= i})

\* C26: the entry_count that save writes is the number of records it writes,
\* and the records are the live slots in ascending slot order.
C26_Step ==
    (last'.op = "save" /\ garbage' = 0) =>
        /\ file'.entry_count = Len(file'.records)
        /\ Len(file'.records) = Cardinality(LiveSlots(table))
        /\ \A i \in LiveSlots(table) :
             LET rec == file'.records[Rank(table, i)]
             IN  /\ rec.key = entries[i].key
                 /\ rec.data \in Contents(entries[i].value)
                 /\ rec.value_len = Len(rec.data)

C26_EntryCountMatchesRecords == [][C26_Step]_vars

\* what repeated calls of ht_iterator_next yield from index on, each with the
\* slot it came from
RECURSIVE Iterate(_, _)
Iterate(t, index) ==
    LET n == ht_iterator_next(t, index) IN
    IF ~n.found THEN << >>
    ELSE << [slot |-> n.index - 1, key |-> n.key, value |-> n.value] >>
         \o Iterate(t, n.index)

\* the iterator index when ht_iterator_next first returns false
RECURSIVE EndIndex(_, _)
EndIndex(t, index) ==
    LET n == ht_iterator_next(t, index) IN
    IF ~n.found THEN n.index ELSE EndIndex(t, n.index)

\* C27: iterating the table from a fresh iterator yields each live slot
\* once, in ascending slot order, and nothing else; the end comes with the
\* index at capacity at most, every later call reports the end again, and a
\* fresh iterator starts at slot 0.
C27_IterationYieldsLiveSlots ==
    LET seq == Iterate(table, ht_iterator_init(table))
        end == EndIndex(table, ht_iterator_init(table))
    IN  /\ ht_iterator_init(table) = 0
        /\ Len(seq) = Cardinality(LiveSlots(table))
        /\ \A i \in LiveSlots(table) :
             seq[Rank(table, i)] = [slot |-> i, key |-> entries[i].key,
                                    value |-> entries[i].value]
        /\ end <= capacity
        /\ ~ht_iterator_next(table, end).found
        /\ ht_iterator_next(table, end).index = end

\* a table in which the iteration has to pass a tombstone before a live slot
C27_Witness ==
    /\ ~crashed
    /\ \E i \in LiveSlots(table) : \E j \in TombstoneSlots(table) : j < i
    /\ Cardinality(LiveSlots(table)) >= 2

\* C28: get, whether it finds the key or not, and a delete that reports
\* KVS_ERROR_KEY_NOT_FOUND leave entries, size, tombstones and capacity as
\* they were.
C28_Step ==
    /\ last'.op = "get" => TableUnchanged
    /\ (last'.op = "delete" /\ ~last'.ret /\ ~crashed'
        /\ global_error' = KVS_ERROR_KEY_NOT_FOUND) => TableUnchanged

C28_LookupLeavesTable == [][C28_Step]_vars

\* a delete reported not-found on a table that holds keys and a tombstone
C28_Witness ==
    /\ last.op = "delete" /\ ~last.ret /\ ~crashed
    /\ global_error = KVS_ERROR_KEY_NOT_FOUND
    /\ LiveSlots(table) # {}
    /\ TombstoneSlots(table) # {}

\* C29: the capacity changes only in a set, every change doubles it, and
\* get and delete never change it; it never decreases.
C29_Step ==
    /\ capacity' >= capacity
    /\ capacity' # capacity =>
          /\ last'.op = "set"
          /\ capacity' = 2 * capacity

C29_CapacityOnlyDoubles == [][C29_Step]_vars

\* a set has grown a table of capacity 2 to capacity 4
C29_Witness ==
    /\ last.op = "set" /\ last.ret /\ ~crashed
    /\ capacity = 4
    /\ Cardinality(LiveSlots(table)) >= 2

\* record j (from 1) of the file is read in full, so that load hands it to
\* ht_set
ReadsFine(f, j) ==
    /\ j <= Len(f.records)
    /\ f.records[j].fields = 3
    /\ f.records[j].value_len <= MaxValueLen
    /\ Len(f.records[j].data) = f.records[j].value_len

\* the number of records before the one at which the load in last' failed:
\* when the load stopped in the ht_set of record nset, that record is the one
\* that failed
RecordsBeforeFailure(f, n) ==
    IF n > 0 /\ (n >= f.entry_count \/ ReadsFine(f, n + 1)) THEN n - 1 ELSE n

\* what get returns for k after the first m records are merged into t
MergedValue(t, f, m, k) ==
    LET at == {i \in 1 .. m : f.records[i].key = k}
    IN  IF at = {} THEN Seen(t, k)
        ELSE Buf(f.records[CHOOSE j \in at : \A j2 \in at : j2 <= j].data)

\* C30: when load fails at a record, it returns false and get returns for
\* every key what the table held before merged with the records before the
\* failing one; nothing is rolled back and the failing record is not there.
C30_Step ==
    LET f == FileOf(last'.src)
        m == RecordsBeforeFailure(f, last'.nset)
    IN  (last'.op = "load" /\ ~last'.ret /\ ~crashed' /\ f.exists /\ f.hdr
         /\ f.magic = KVS_MAGIC_NUMBER /\ f.version = KVS_FILE_VERSION) =>
            \A k \in Keys : Seen(table', k) = MergedValue(table, f, m, k)

C30_FailedLoadKeepsPrefix == [][C30_Step]_vars

\* no slot of the array is Empty
NoEmptySlot(t) == \A i \in 0 .. t.capacity - 1 : t.entries[i].occupied

LiveKeys(t) == {t.entries[i].key : i \in LiveSlots(t)}

\* C31: on every reachable table find_slot examines at most capacity slots
\* for every key, in a lookup and in an insertion; on a table without an Empty
\* slot the lookup of an absent key finds no slot and get reports not-found.
C31_ProbeTerminates ==
    \A key \in Keys :
        /\ \A for_insertion \in BOOLEAN :
              slots_examined(table, key, for_insertion) <= capacity
        /\ (NoEmptySlot(table) /\ key \notin LiveKeys(table)) =>
              /\ find_slot(table, key, FALSE) = SIZE_MAX
              /\ ht_get(table, global_error, key)
                    = [val |-> NULL, err |-> KVS_ERROR_KEY_NOT_FOUND]

\* a get of an absent key has gone once round a table of capacity 2 that
\* holds one live entry and one tombstone
C31_Witness ==
    /\ last.op = "get" /\ ~last.ret /\ last.key \in Keys \ LiveKeys(table)
    /\ capacity = 2
    /\ NoEmptySlot(table)
    /\ TombstoneSlots(table) # {} /\ LiveSlots(table) # {}
    /\ slots_examined(table, last.key, FALSE) = capacity
    /\ global_error = KVS_ERROR_KEY_NOT_FOUND

\* the slots whose value pointer is dangling
DanglingSlots(t) ==
    {i \in 0 .. t.capacity - 1 :
        ~t.entries[i].value.null /\ t.entries[i].value.freed}

\* C32: after every set and delete, growth included, no call has left a
\* buffer unfreed and unreferenced, no slot points to a freed buffer, no free
\* of a freed buffer has aborted the process, and the slots that point to a
\* buffer are the live ones.
C32_BuffersOwned ==
    /\ last.leaked = 0
    /\ DanglingSlots(table) = {}
    /\ ~crashed
    /\ \A i \in 0 .. capacity - 1 :
          ~entries[i].value.null <=> IsLive(entries[i])

====
